---- MODULE Spec2Model ----
(***************************************************************************)
(* The channel record service of src/channel.rs: the four handlers add,   *)
(* get, update and delete over the table "channels", the pooled           *)
(* connections they hold while they run, and the error classifier of      *)
(* src/util/error_handling.rs.                                            *)
(*                                                                         *)
(* Option<T> is modelled as a set: {} is None and {v} is Some(v).          *)
(***************************************************************************)
EXTENDS Integers, FiniteSets, Sequences, TLC

\* ------------------------------------------------------------------------
\* Bounds
\* ------------------------------------------------------------------------
NumReqs == 2
MaxClock == 2
MaxPool == 2
\* The size of the pool the tests run with: PoolConfig::new(1).
PoolSize == 1

Slots == 1..NumReqs
ChannelIds == {-1, 1}
\* The values NOW() can take when an INSERT runs.
Times == 1..MaxClock

\* The values a Create payload is drawn from.  Every field has two values and
\* no two fields of one payload share a value, so that a field written to the
\* wrong column, or overwritten by another payload, is visible.
Payloads ==
    { [channel_name |-> "general", guild_id |-> 10, guild_name |-> "Guild", added_by |-> 99],
      [channel_name |-> "random", guild_id |-> 20, guild_name |-> "Other", added_by |-> 98] }

OptBool == {{}, {TRUE}, {FALSE}}

\* ------------------------------------------------------------------------
\* Option helpers
\* ------------------------------------------------------------------------
Some(v) == {v}
NoneOpt == {}
unwrap(o) == CHOOSE v \in o : TRUE
unwrap_or_default(o) == IF o = {} THEN FALSE ELSE unwrap(o)

\* ------------------------------------------------------------------------
\* Request payloads
\* ------------------------------------------------------------------------
Create ==
    { [channel_id |-> i, channel_name |-> p.channel_name, guild_id |-> p.guild_id,
       guild_name |-> p.guild_name, added_by |-> p.added_by, suppress |-> s] :
        i \in ChannelIds, p \in Payloads, s \in OptBool }

DataDefault ==
    [channel_id |-> {}, channel_name |-> {}, guild_id |-> {}, guild_name |-> {}, suppress |-> {}]

\* The Data payloads an Update can carry: only suppress is read by update.
Data == { [DataDefault EXCEPT !.suppress = s] : s \in OptBool }

DataFields == {"channel_id", "channel_name", "guild_id", "guild_name", "suppress"}

\* Mutant of SerializeData: fields are skipped when falsy, not when absent, so
\* suppress=false is left out.
SerializeData_skip_falsy(d) ==
    [k \in {f \in DataFields : d[f] # {} /\ ~(f = "suppress" /\ d[f] = {FALSE})} |->
        unwrap(d[k])]

\* Json(Data): a field that is None is skipped, a field that is Some(v) is
\* written as v (Some(false) included).
SerializeData(d) ==
    [k \in {f \in DataFields : d[f] # {}} |-> unwrap(d[k])]

\* ------------------------------------------------------------------------
\* Error responses
\* ------------------------------------------------------------------------
CREATED == 201
OK == 200
CONFLICT == 409
NOT_FOUND == 404
INTERNAL_SERVER_ERROR == 500

Message(message, sqlstate) == [message |-> message, sqlstate |-> sqlstate]

MessageFields == {"message", "sqlstate"}

\* Json(Message): message is always written, sqlstate only when it is Some.
SerializeMessage(m) ==
    [k \in {f \in MessageFields : f = "message" \/ m[f] # {}} |->
        IF k = "message" THEN m.message ELSE unwrap(m[k])]

\* A response: a status and a body that is empty ({}) or holds one JSON object.
Response(status, body) == [status |-> status, body |-> body]
EmptyBody == {}
JsonBody(obj) == {obj}

\* Failures of the storage layer.
\*   DbError      the database's own error descriptor (message and SQLSTATE)
\*   Error        tokio_postgres::Error; cause is Some(DbError) when the
\*                database reported it and None otherwise (closed connection,
\*                i/o failure, unexpected row count)
\*   PoolError    deadpool's failure to hand out a connection; cause is the
\*                DbError of a refused backend connection, when there is one
DbError(message, code) == [type |-> "DbError", message |-> message, code |-> code]
UniqueViolation ==
    DbError("duplicate key value violates unique constraint \"channels_pkey\"", "23505")
UndefinedTable == DbError("relation \"channels\" does not exist", "42P01")
TooManyConnections == DbError("sorry, too many clients already", "53300")

PgError(kind, cause) == [type |-> "Error", kind |-> kind, cause |-> cause]
Db(db_error) == PgError("Db", Some(db_error))
Closed == PgError("Closed", NoneOpt)
RowCount == PgError("RowCount", NoneOpt)
PoolError(kind, cause) == [type |-> "PoolError", kind |-> kind, cause |-> cause]

\* The failures a statement can meet for reasons outside the table's contents.
PoolErrors == {PoolError("Closed", NoneOpt), PoolError("Backend", Some(TooManyConnections))}
StatementErrors == {Db(UndefinedTable), Closed}

\* Error::as_db_error
as_db_error(err) == err.cause

\* Mutant of internal_error: the downcast never succeeds, every failure is
\* Internal.
internal_error_never_conflict(err) ==
    Response(INTERNAL_SERVER_ERROR,
             JsonBody(SerializeMessage(Message("INTERNAL SERVER ERROR", NoneOpt))))

internal_error(err) ==
    IF err.type = "DbError"
    THEN Response(CONFLICT, JsonBody(SerializeMessage(Message(err.message, Some(err.code)))))
    ELSE Response(INTERNAL_SERVER_ERROR,
                  JsonBody(SerializeMessage(Message("INTERNAL SERVER ERROR", NoneOpt))))

\* The closure handed to map_err after prepare and execute in add, update and
\* delete (and after prepare in get): the driver's error is unwrapped to its
\* DbError and classified.  unwrap() of None panics: the handler ends without
\* a response, which is the empty Option here.
map_db_error(err) ==
    IF as_db_error(err) = NoneOpt
    THEN NoneOpt
    ELSE Some(internal_error(unwrap(as_db_error(err))))

\* Mutant of map_not_found: the failed lookup goes through the classifier
\* like every other failure.
map_not_found_classified(err, channel_id) == internal_error(err)

\* The closure handed to map_err after query_one in get: whatever the error.
map_not_found(err, channel_id) ==
    Response(NOT_FOUND,
             JsonBody(SerializeMessage(
                 Message("Could not find " \o ToString(channel_id), NoneOpt))))

\* ------------------------------------------------------------------------
\* The table "channels" and the four statements
\* ------------------------------------------------------------------------
Row(p, added_at) ==
    [channel_id |-> p.channel_id, channel_name |-> p.channel_name,
     guild_id |-> p.guild_id, guild_name |-> p.guild_name,
     added_at |-> added_at, added_by |-> p.added_by,
     suppress |-> unwrap_or_default(p.suppress)]

RowsOf(t, channel_id) == {row \in t : row.channel_id = channel_id}

\* Mutant of Insert: an upsert, the row of an existing channel_id is replaced.
Insert_upsert(t, p, time) ==
    [table |-> (t \ RowsOf(t, p.channel_id)) \cup {Row(p, time)}, err |-> NoneOpt]

\* Mutant of Insert: the table has no PRIMARY KEY, every INSERT adds a row.
Insert_no_key(t, p, time) ==
    [table |-> t \cup {Row(p, time)}, err |-> NoneOpt]

\* INSERT INTO channels VALUES ($1, $2, $3, $4, NOW(), $5, $6), under the
\* PRIMARY KEY constraint on channel_id.
Insert(t, p, time) ==
    IF RowsOf(t, p.channel_id) # {}
    THEN [table |-> t, err |-> Some(Db(UniqueViolation))]
    ELSE [table |-> t \cup {Row(p, time)}, err |-> NoneOpt]

\* SELECT channel_name, guild_id, guild_name, suppress FROM channels
\* WHERE channel_id = $1
Select(t, channel_id) ==
    { [channel_name |-> row.channel_name, guild_id |-> row.guild_id,
       guild_name |-> row.guild_name, suppress |-> row.suppress] :
        row \in RowsOf(t, channel_id) }

\* Mutant of Update: the payload's suppress is tested for truth, not for
\* presence, so a supplied false does not overwrite.
Update_truthy(t, suppress, channel_id) ==
    { IF row.channel_id = channel_id
      THEN [row EXCEPT !.suppress = IF suppress = Some(TRUE) THEN TRUE ELSE @]
      ELSE row : row \in t }

\* Mutant of Update: a replace instead of a merge, the fields the payload does
\* not carry are reset.
Update_replace(t, suppress, channel_id) ==
    { IF row.channel_id = channel_id
      THEN [row EXCEPT !.suppress = unwrap_or_default(suppress),
                       !.channel_name = "", !.guild_name = ""]
      ELSE row : row \in t }

\* Mutant of Update: a payload without suppress writes the default, as the
\* INSERT of add does.
Update_default(t, suppress, channel_id) ==
    { IF row.channel_id = channel_id
      THEN [row EXCEPT !.suppress = unwrap_or_default(suppress)]
      ELSE row : row \in t }

\* UPDATE channels SET suppress = CASE WHEN $1::BOOLEAN IS NOT NULL THEN $1
\* ELSE suppress END WHERE channel_id = $2
Update(t, suppress, channel_id) ==
    { IF row.channel_id = channel_id
      THEN [row EXCEPT !.suppress = IF suppress # NoneOpt THEN unwrap(suppress) ELSE @]
      ELSE row : row \in t }

\* Mutant of Delete: the WHERE clause is missing.
Delete_all(t, channel_id) == {}

\* DELETE FROM channels WHERE channel_id = $1
Delete(t, channel_id) == {row \in t : row.channel_id # channel_id}

\* ------------------------------------------------------------------------
\* State
\* ------------------------------------------------------------------------
VARIABLES
    table,   \* the rows of "channels"
    max_size, \* the pool's size: the connections it manages
    avail,   \* connections the pool can still hand out
    req,     \* per request slot: the request, where its handler is, and once it
             \* has returned its response and the storage failure it met
    written  \* the INSERT, UPDATE or DELETE that the database executed most recently,
             \* and the suppress its row held before it (None when it had no row)

vars == <<table, max_size, avail, req, written>>

NoReq == [op |-> "none", channel_id |-> 0, payload |-> {}, pc |-> "idle",
          resp |-> {}, err |-> {}]
NoWrite == [op |-> "none", channel_id |-> 0, payload |-> {}, stored |-> {}]

Init ==
    /\ table = {}
    /\ max_size = PoolSize
    /\ avail = max_size
    /\ req = [r \in Slots |-> NoReq]
    /\ written = NoWrite

\* The handler in slot r holds a pooled connection (its local con is alive).
Holding(r) == req[r].pc \in {"prepare", "execute"}

\* Mutant of Return: the connection goes back to the pool only when the
\* handler returns without a storage failure.
Return_keep_on_error(r, resp, err) ==
    /\ req' = [req EXCEPT ![r].pc = "done", ![r].resp = resp, ![r].err = err]
    /\ avail' = IF Holding(r) /\ err = NoneOpt THEN avail + 1 ELSE avail
    /\ UNCHANGED max_size
    /\ written' = IF err = NoneOpt /\ req[r].op # "get"
                  THEN [op |-> req[r].op, channel_id |-> req[r].channel_id,
                        payload |-> req[r].payload,
                        stored |-> {row.suppress : row \in RowsOf(table, req[r].channel_id)}]
                  ELSE written

\* The handler in slot r returns: resp is Some(response), or None when it
\* panicked, and err is the storage failure it met, if any.  Its locals are
\* dropped, so the connection it holds goes back to the pool.
Return(r, resp, err) ==
    /\ req' = [req EXCEPT ![r].pc = "done", ![r].resp = resp, ![r].err = err]
    /\ avail' = IF Holding(r) THEN avail + 1 ELSE avail
    /\ UNCHANGED max_size
    /\ written' = IF err = NoneOpt /\ req[r].op # "get"
                  THEN [op |-> req[r].op, channel_id |-> req[r].channel_id,
                        payload |-> req[r].payload,
                        stored |-> {row.suppress : row \in RowsOf(table, req[r].channel_id)}]
                  ELSE written

\* A request is routed to its handler; axum has extracted the path id and
\* the JSON payload.
request(r) ==
    /\ req[r].pc \in {"idle", "done"}
    /\ \/ \E p \in Create :
            req' = [req EXCEPT ![r] = [op |-> "add", channel_id |-> p.channel_id,
                                       payload |-> {p}, pc |-> "pool_get",
                                       resp |-> {}, err |-> {}]]
       \/ \E id \in ChannelIds :
            req' = [req EXCEPT ![r] = [op |-> "get", channel_id |-> id,
                                       payload |-> {}, pc |-> "pool_get",
                                       resp |-> {}, err |-> {}]]
       \/ \E id \in ChannelIds, d \in Data :
            req' = [req EXCEPT ![r] = [op |-> "update", channel_id |-> id,
                                       payload |-> {d}, pc |-> "pool_get",
                                       resp |-> {}, err |-> {}]]
       \/ \E id \in ChannelIds :
            req' = [req EXCEPT ![r] = [op |-> "delete", channel_id |-> id,
                                       payload |-> {}, pc |-> "pool_get",
                                       resp |-> {}, err |-> {}]]
    /\ UNCHANGED <<table, max_size, avail, written>>

\* pool.get().await.map_err(|err| internal_error(Box::new(err)))?
pool_get(r) ==
    /\ req[r].pc = "pool_get"
    /\ \/ /\ avail > 0
          /\ avail' = avail - 1
          /\ req' = [req EXCEPT ![r].pc = "prepare"]
          /\ UNCHANGED <<table, max_size, written>>
       \/ \E e \in PoolErrors :
            /\ Return(r, Some(internal_error(e)), Some(e))
            /\ UNCHANGED table

\* con.prepare(...).await.map_err(...)?
prepare(r) ==
    /\ req[r].pc = "prepare"
    /\ \/ /\ req' = [req EXCEPT ![r].pc = "execute"]
          /\ UNCHANGED <<table, max_size, avail, written>>
       \/ \E e \in StatementErrors :
            /\ Return(r, map_db_error(e), Some(e))
            /\ UNCHANGED table

\* Mutant of add_execute: INSERT ... ON CONFLICT DO NOTHING, an INSERT that
\* finds a row of the channel_id changes nothing and succeeds.
add_execute_do_nothing(r) ==
    /\ req[r].pc = "execute"
    /\ req[r].op = "add"
    /\ \E time \in Times :
            /\ table' = Insert(table, unwrap(req[r].payload), time).table
            /\ Return(r, Some(Response(CREATED, EmptyBody)), NoneOpt)

\* con.execute(&statement, ...) of add, and the Ok(StatusCode::CREATED) after it.
add_execute(r) ==
    /\ req[r].pc = "execute"
    /\ req[r].op = "add"
    /\ \/ \E time \in Times :
            LET res == Insert(table, unwrap(req[r].payload), time) IN
            /\ table' = res.table
            /\ IF res.err = NoneOpt
               THEN Return(r, Some(Response(CREATED, EmptyBody)), NoneOpt)
               ELSE Return(r, map_db_error(unwrap(res.err)), res.err)
       \/ \E e \in StatementErrors :
            /\ Return(r, map_db_error(e), Some(e))
            /\ UNCHANGED table

\* con.query_one(&statement, &[&channel_id]) of get, and the Data built from
\* the row.
get_query_one(r) ==
    /\ req[r].pc = "execute"
    /\ req[r].op = "get"
    /\ \/ LET rows == Select(table, req[r].channel_id) IN
            IF Cardinality(rows) = 1
            THEN LET result == unwrap(rows)
                     data == [DataDefault EXCEPT
                                 !.channel_name = Some(result.channel_name),
                                 !.guild_id = Some(result.guild_id),
                                 !.guild_name = Some(result.guild_name),
                                 !.suppress = Some(result.suppress)]
                 IN Return(r, Some(Response(OK, JsonBody(SerializeData(data)))), NoneOpt)
            ELSE Return(r, Some(map_not_found(RowCount, req[r].channel_id)), Some(RowCount))
       \/ \E e \in StatementErrors :
            Return(r, Some(map_not_found(e, req[r].channel_id)), Some(e))
    /\ UNCHANGED table

\* Mutant of update_execute: an update that affects no row is answered 404.
update_execute_strict(r) ==
    /\ req[r].pc = "execute"
    /\ req[r].op = "update"
    /\ table' = Update(table, unwrap(req[r].payload).suppress, req[r].channel_id)
    /\ IF RowsOf(table, req[r].channel_id) = {}
       THEN Return(r, Some(map_not_found(RowCount, req[r].channel_id)), NoneOpt)
       ELSE Return(r, Some(Response(OK, EmptyBody)), NoneOpt)

\* con.execute(&statement, &[&payload.suppress, &channel_id]) of update, and
\* the Ok(StatusCode::OK) after it.
update_execute(r) ==
    /\ req[r].pc = "execute"
    /\ req[r].op = "update"
    /\ \/ /\ table' = Update(table, unwrap(req[r].payload).suppress, req[r].channel_id)
          /\ Return(r, Some(Response(OK, EmptyBody)), NoneOpt)
       \/ \E e \in StatementErrors :
            /\ Return(r, map_db_error(e), Some(e))
            /\ UNCHANGED table

\* con.execute(&statement, &[&channel_id]) of delete, and the
\* Ok(StatusCode::OK) after it.
delete_execute(r) ==
    /\ req[r].pc = "execute"
    /\ req[r].op = "delete"
    /\ \/ /\ table' = Delete(table, req[r].channel_id)
          /\ Return(r, Some(Response(OK, EmptyBody)), NoneOpt)
       \/ \E e \in StatementErrors :
            /\ Return(r, map_db_error(e), Some(e))
            /\ UNCHANGED table

\* The four handlers.
add(r) == req[r].op = "add" /\ (pool_get(r) \/ prepare(r) \/ add_execute(r))
get(r) == req[r].op = "get" /\ (pool_get(r) \/ prepare(r) \/ get_query_one(r))
update(r) == req[r].op = "update" /\ (pool_get(r) \/ prepare(r) \/ update_execute(r))
delete(r) == req[r].op = "delete" /\ (pool_get(r) \/ prepare(r) \/ delete_execute(r))

\* The service under a client that awaits each response before it sends its
\* next request, as the tests of channel.rs do: one slot is in use.
First == CHOOSE r \in Slots : \A s \in Slots : r <= s

Next ==
    \/ request(First)
    \/ add(First)
    \/ get(First)
    \/ update(First)
    \/ delete(First)

Spec == Init /\ [][Next]_vars

\* ------------------------------------------------------------------------
\* Concurrent requests
\* ------------------------------------------------------------------------
\* The channel_id the concurrent requests are about.
BurstId == 1

\* The Create payloads of a burst: two that differ in every field but the
\* channel_id, and leave suppress out.
BurstCreate == {p \in Create : p.channel_id = BurstId /\ p.suppress = NoneOpt}

\* The tables a burst of requests can find: none or one record of BurstId,
\* as a Create, and an Update after it, leave it.
BurstTables ==
    {{}} \cup { {[Row(p, time) EXCEPT !.suppress = b]} :
                    p \in BurstCreate, time \in {1}, b \in BOOLEAN }

\* The service when a burst of requests starts: the pool has any size from 1
\* to MaxPool and all its connections are available.
InitC ==
    /\ table \in BurstTables
    /\ max_size \in 1..MaxPool
    /\ avail = max_size
    /\ req = [r \in Slots |-> NoReq]
    /\ written = NoWrite

\* One request of the burst is routed to its handler: each slot serves one
\* request, all of them about BurstId.
burst(r) ==
    /\ req[r].pc = "idle"
    /\ request(r)
    /\ req'[r].channel_id = BurstId
    /\ req'[r].op = "add" => req'[r].payload \subseteq BurstCreate

\* The service under clients that do not wait for each other: every handler
\* task runs on its own, the steps of the tasks interleave at their awaits.
NextC ==
    \E r \in Slots :
        \/ burst(r)
        \/ add(r)
        \/ get(r)
        \/ update(r)
        \/ delete(r)

SpecC == InitC /\ [][NextC]_vars

\* A step of the handler of slot r that the runtime owes it: the completion
\* of the statement it awaits, with a result or with an error, or the
\* checkout it waits for when the pool has a connection.  A failing
\* pool.get() is owed to nobody.
Proceeds(r) ==
    /\ add(r) \/ get(r) \/ update(r) \/ delete(r)
    /\ req[r].pc = "pool_get" => req'[r].pc = "prepare"

\* SpecC under a fair scheduler and a database that completes every
\* statement: no handler that can proceed waits forever.
FairSpecC == SpecC /\ \A r \in Slots : WF_vars(Proceeds(r))

TypeOK ==
    /\ avail \in 0..max_size
    /\ \A row \in table : row.added_at \in Times

\* ------------------------------------------------------------------------
\* Vocabulary of the properties
\* ------------------------------------------------------------------------
\* The step is the return of the handler op of slot r from the await named pc.
Returns(r, op, pc) ==
    /\ req[r].op = op
    /\ req[r].pc = pc
    /\ req'[r].pc = "done"

\* The failure is one the statement met on its way (StatementErrors), not a
\* verdict of the database on the table's contents.
Faulted(err) == err # NoneOpt /\ unwrap(err) \in StatementErrors

\* The step is the return of handler op of slot r after the database has
\* evaluated its statement against the table.
Executes(r, op) == Returns(r, op, "execute") /\ ~Faulted(req'[r].err)

\* The client's most recent request, and whether its handler has returned.
Last == req[First]
Answered == Last.pc = "done"

\* The status of a completed request; 0 when its handler panicked.
StatusOf(done) == IF done.resp = NoneOpt THEN 0 ELSE unwrap(done.resp).status
BodyOf(done) == IF done.resp = NoneOpt THEN {} ELSE unwrap(done.resp).body

\* The text of "Could not find <channel_id>" for the ids of the model.
CouldNotFind(channel_id) ==
    IF channel_id = 1 THEN "Could not find 1" ELSE "Could not find -1"

NotFoundResponse(channel_id) ==
    Response(NOT_FOUND, {[message |-> CouldNotFind(channel_id)]})

\* ------------------------------------------------------------------------
\* C1
\* ------------------------------------------------------------------------
\* C1: a Create that the database executes while a row with its channel_id
\* exists returns 409 with a body carrying the database's message and
\* sqlstate, and leaves the table, the existing row included, as it was.
C1_CreateUniqueness ==
    [][\A r \in Slots :
        (Executes(r, "add") /\ RowsOf(table, req[r].channel_id) # {}) =>
            /\ table' = table
            /\ req'[r].resp = Some(Response(CONFLICT,
                    {[message |-> UniqueViolation.message, sqlstate |-> UniqueViolation.code]}))]_vars

\* A Create got 409 for an id whose row was written by a Create with other
\* field values and is still in the table.
C1_Witness ==
    /\ Answered
    /\ Last.op = "add"
    /\ StatusOf(Last) = CONFLICT
    /\ Last.err = Some(Db(UniqueViolation))
    /\ written.op = "add"
    /\ written.channel_id = Last.channel_id
    /\ unwrap(Last.payload).channel_name # unwrap(written.payload).channel_name
    /\ \E time \in Times :
        RowsOf(table, Last.channel_id) = {Row(unwrap(written.payload), time)}

\* ------------------------------------------------------------------------
\* C2
\* ------------------------------------------------------------------------
\* What Read must answer for a record created from payload p.
CreatedView(p) ==
    [channel_name |-> p.channel_name, guild_id |-> p.guild_id,
     guild_name |-> p.guild_name,
     suppress |-> IF p.suppress = NoneOpt THEN FALSE ELSE unwrap(p.suppress)]

\* C2: a Create that succeeds returns 201 with an empty body, and a Read of
\* its channel_id that the database executes before any other INSERT, UPDATE
\* or DELETE returns 200 with exactly the channel_name, guild_id, guild_name
\* of the payload and its suppress, false when it was omitted.
C2_ReadFidelity ==
    [][\A r \in Slots :
        /\ (Executes(r, "add") /\ req'[r].err = NoneOpt) =>
                req'[r].resp = Some(Response(CREATED, EmptyBody))
        /\ (Executes(r, "get") /\ written.op = "add"
                /\ written.channel_id = req[r].channel_id) =>
                req'[r].resp = Some(Response(OK, {CreatedView(unwrap(written.payload))}))]_vars

\* A Read answered 200 with suppress false for a record whose Create
\* omitted suppress.
C2_Witness ==
    /\ Answered
    /\ Last.op = "get"
    /\ StatusOf(Last) = OK
    /\ written.op = "add"
    /\ written.channel_id = Last.channel_id
    /\ unwrap(written.payload).suppress = NoneOpt
    /\ \E body \in BodyOf(Last) : body.suppress = FALSE

\* ------------------------------------------------------------------------
\* C3
\* ------------------------------------------------------------------------
\* C3: a Read of a channel_id that has no row returns 404 with the body
\* {"message": "Could not find <channel_id>"} and no other field.
C3_ReadMissing ==
    [][\A r \in Slots :
        (Returns(r, "get", "execute") /\ RowsOf(table, req[r].channel_id) = {}) =>
            req'[r].resp = Some(NotFoundResponse(req[r].channel_id))]_vars

\* A Read of an id whose row was deleted was answered 404 because the lookup
\* found no row.
C3_Witness ==
    /\ Answered
    /\ Last.op = "get"
    /\ Last.err = Some(RowCount)
    /\ Last.resp = Some(NotFoundResponse(Last.channel_id))
    /\ written.op = "delete"
    /\ written.channel_id = Last.channel_id
    /\ written.stored # NoneOpt

\* ------------------------------------------------------------------------
\* C4
\* ------------------------------------------------------------------------
\* C4: an Update that the database executes on an existing record returns
\* 200 with an empty body; afterwards the record's suppress is the payload's
\* when it supplies one and the stored one when it does not, every other
\* field of the record is as before, and so is every other row.
C4_UpdateMerge ==
    [][\A r \in Slots : \A row \in RowsOf(table, req[r].channel_id) :
        (Executes(r, "update") /\ req'[r].err = NoneOpt) =>
            LET p == unwrap(req[r].payload) IN
            /\ req'[r].resp = Some(Response(OK, EmptyBody))
            /\ table' = (table \ {row}) \cup
                    {[row EXCEPT !.suppress =
                        IF p.suppress = NoneOpt THEN row.suppress ELSE unwrap(p.suppress)]}]_vars

\* An Update supplying suppress=false was executed on a record whose stored
\* suppress was true, and the record now holds false.
C4_Witness ==
    /\ Answered
    /\ Last.op = "update"
    /\ StatusOf(Last) = OK
    /\ written.op = "update"
    /\ unwrap(written.payload).suppress = Some(FALSE)
    /\ written.stored = Some(TRUE)
    /\ \E row \in RowsOf(table, written.channel_id) : row.suppress = FALSE

\* ------------------------------------------------------------------------
\* C5
\* ------------------------------------------------------------------------
\* C5: a Delete that the database executes returns 200 with an empty body
\* whether or not its channel_id has a row; afterwards the id has no row and
\* every other row is as before, a second Delete of the id would leave that
\* table as it is, and a Read of the id executed before any other INSERT,
\* UPDATE or DELETE returns 404.
C5_DeleteIdempotence ==
    [][\A r \in Slots :
        /\ (Executes(r, "delete") /\ req'[r].err = NoneOpt) =>
                /\ req'[r].resp = Some(Response(OK, EmptyBody))
                /\ table' = table \ RowsOf(table, req[r].channel_id)
                /\ Delete(table', req[r].channel_id) = table'
        /\ (Executes(r, "get") /\ written.op = "delete"
                /\ written.channel_id = req[r].channel_id) =>
                StatusOf(req'[r]) = NOT_FOUND]_vars

\* A Delete of an id that had no row returned 200 while the table held a row
\* of another id.
C5_Witness ==
    /\ Answered
    /\ Last.op = "delete"
    /\ StatusOf(Last) = OK
    /\ written.op = "delete"
    /\ written.channel_id = Last.channel_id
    /\ written.stored = NoneOpt
    /\ table # {}

\* ------------------------------------------------------------------------
\* C6
\* ------------------------------------------------------------------------
\* C6: an Update that the database executes for a channel_id that has no row
\* returns 200 with an empty body and leaves the table as it is, and a Read
\* of that id executed before any other INSERT, UPDATE or DELETE returns 404.
C6_UpdateMissingNoOp ==
    [][\A r \in Slots :
        /\ (Executes(r, "update") /\ RowsOf(table, req[r].channel_id) = {}) =>
                /\ req'[r].resp = Some(Response(OK, EmptyBody))
                /\ table' = table
        /\ (Executes(r, "get") /\ written.op = "update"
                /\ written.channel_id = req[r].channel_id
                /\ written.stored = NoneOpt) =>
                req'[r].resp = Some(NotFoundResponse(req[r].channel_id))]_vars

\* An Update supplying suppress=true for an id with no row returned 200, and
\* the Read of that id after it was answered 404.
C6_Witness ==
    /\ Answered
    /\ Last.op = "get"
    /\ StatusOf(Last) = NOT_FOUND
    /\ written.op = "update"
    /\ written.channel_id = Last.channel_id
    /\ written.stored = NoneOpt
    /\ unwrap(written.payload).suppress = Some(TRUE)
    /\ RowsOf(table, Last.channel_id) = {}

\* ------------------------------------------------------------------------
\* C7
\* ------------------------------------------------------------------------
\* SQLSTATE class 23, integrity constraint violation, as far as the table's
\* schema can raise it.
ConstraintCodes == {"23505"}
ConstraintViolation(err) ==
    /\ err.type = "Error"
    /\ err.kind = "Db"
    /\ unwrap(err.cause).code \in ConstraintCodes

InternalResponse == Response(INTERNAL_SERVER_ERROR, {[message |-> "INTERNAL SERVER ERROR"]})

\* C7: a Create, Update or Delete that met a storage failure other than a
\* constraint violation has returned 500 with the fixed generic message.
C7_StorageFailureIsInternal ==
    \A r \in Slots :
        ( /\ req[r].pc = "done"
          /\ req[r].op \in {"add", "update", "delete"}
          /\ req[r].err # NoneOpt
          /\ ~ConstraintViolation(unwrap(req[r].err)) ) =>
            req[r].resp = Some(InternalResponse)

\* ------------------------------------------------------------------------
\* C8
\* ------------------------------------------------------------------------
\* C8: a Read whose select meets a transport or storage fault returns 500;
\* a 404 is returned by Read only, and only when the lookup found no row.
C8_NotFoundOnlyForZeroRows ==
    [][\A r \in Slots :
        /\ (Returns(r, "get", "execute") /\ Faulted(req'[r].err)) =>
                StatusOf(req'[r]) = INTERNAL_SERVER_ERROR
        /\ (req[r].pc # "done" /\ req'[r].pc = "done"
                /\ StatusOf(req'[r]) = NOT_FOUND) =>
                /\ req'[r].op = "get"
                /\ req'[r].err = Some(RowCount)]_vars

\* ------------------------------------------------------------------------
\* C9
\* ------------------------------------------------------------------------
\* The value a handler boxes for the classifier: the pool's error as it is,
\* a statement's error unwrapped to its DbError.
Classified(err) == IF err.type = "PoolError" THEN err ELSE unwrap(as_db_error(err))

ErrorStatuses == {CONFLICT, NOT_FOUND, INTERNAL_SERVER_ERROR}

WriteOnceFields ==
    {"channel_id", "channel_name", "guild_id", "guild_name", "added_at", "added_by"}

\* C10: in every step, a record that is in the table before and after it has
\* the same channel_id, channel_name, guild_id, guild_name, added_at and
\* added_by, and its suppress differs only when the step is the return of an
\* Update of its channel_id.
C10_WriteOnceFields ==
    [][\A row \in table : \A row2 \in RowsOf(table', row.channel_id) :
        /\ \A f \in WriteOnceFields : row2[f] = row[f]
        /\ row2.suppress # row.suppress =>
                \E r \in Slots : /\ Returns(r, "update", "execute")
                                 /\ req[r].channel_id = row.channel_id]_vars

\* An Update has changed the suppress of a record from false to true while
\* the table holds a record of the other id too.
C10_Witness ==
    /\ Answered
    /\ Last.op = "update"
    /\ StatusOf(Last) = OK
    /\ written.op = "update"
    /\ written.stored = Some(FALSE)
    /\ \E row \in RowsOf(table, Last.channel_id) : row.suppress = TRUE
    /\ Cardinality(table) = Cardinality(ChannelIds)

\* ------------------------------------------------------------------------
\* C11
\* ------------------------------------------------------------------------
\* The columns of "channels", all NOT NULL.
Columns ==
    {"channel_id", "channel_name", "guild_id", "guild_name", "added_at", "added_by",
     "suppress"}

\* C11: in every reachable state no two rows of the table have the same
\* channel_id, and every row has all seven columns set, the six write-once
\* ones being those one Create payload and one NOW() gave it and suppress
\* being a boolean.
C11_UniqueCompleteRows ==
    /\ \A row \in table : \A row2 \in table :
            row.channel_id = row2.channel_id => row = row2
    /\ \A row \in table :
            /\ DOMAIN row = Columns
            /\ row.suppress \in BOOLEAN
            /\ \E p \in Create : \E time \in Times :
                   \A f \in WriteOnceFields : row[f] = Row(p, time)[f]

\* A Create of a channel_id whose record exists, with other field values than
\* the record has, was refused, while the table holds a record of every id.
C11_Witness ==
    /\ Answered
    /\ Last.op = "add"
    /\ Last.err = Some(Db(UniqueViolation))
    /\ Cardinality(table) = Cardinality(ChannelIds)
    /\ \E row \in RowsOf(table, Last.channel_id) :
           row.channel_name # unwrap(Last.payload).channel_name

\* ------------------------------------------------------------------------
\* C12
\* ------------------------------------------------------------------------
\* The handler of slot r has returned after the database executed its
\* statement without an error.
Executed(r, op) ==
    /\ req[r].op = op
    /\ req[r].pc = "done"
    /\ req[r].err = NoneOpt

\* The executed Updates of the burst that supplied a suppress.
Supplied ==
    {r \in Slots : Executed(r, "update") /\ unwrap(req[r].payload).suppress # NoneOpt}

\* No request of the burst inserts or deletes.
UpdatesOnly == \A r \in Slots : req[r].op \in {"none", "get", "update"}

\* C12: whatever the interleaving of the requests, when the statement the
\* database executed last is an UPDATE, the record holds the suppress that
\* UPDATE supplied, or, when it supplied none, the suppress the record held
\* just before it, as the requests executed before it left it; and when the
\* requests are Updates only and one that supplied a suppress was executed,
\* the record holds the suppress of one of those.
C12_ConcurrentUpdates ==
    written.op = "update" =>
        \A row \in RowsOf(table, written.channel_id) :
            LET p == unwrap(written.payload) IN
            /\ p.suppress # NoneOpt => row.suppress = unwrap(p.suppress)
            /\ p.suppress = NoneOpt => row.suppress = unwrap(written.stored)
            /\ (UpdatesOnly /\ Supplied # {}) =>
                    \E r \in Supplied :
                        row.suppress = unwrap(unwrap(req[r].payload).suppress)

\* Every request of the burst was an Update and was executed, on a pool that
\* gives each a connection of its own; one supplied suppress=true, the one
\* executed last supplied none, and the record holds true.
C12_Witness ==
    /\ max_size = NumReqs
    /\ \A r \in Slots : Executed(r, "update")
    /\ \E r \in Supplied : unwrap(req[r].payload).suppress = Some(TRUE)
    /\ written.op = "update"
    /\ unwrap(written.payload).suppress = NoneOpt
    /\ written.stored = Some(TRUE)
    /\ \E row \in RowsOf(table, BurstId) : row.suppress = TRUE

\* ------------------------------------------------------------------------
\* C13
\* ------------------------------------------------------------------------
\* The Creates of the burst whose INSERT the database accepted, and those it
\* refused for the PRIMARY KEY.
Accepted == {r \in Slots : Executed(r, "add")}
Refused ==
    {r \in Slots : /\ req[r].op = "add"
                   /\ req[r].pc = "done"
                   /\ req[r].err = Some(Db(UniqueViolation))}

\* No request of the burst updates or deletes.
CreatesOnly == \A r \in Slots : req[r].op \in {"none", "get", "add"}

\* C13: whatever the interleaving of concurrent Creates of one channel_id,
\* the database accepts at most one: it returned 201 and the table holds its
\* fields; every Create it refused returned 409 with sqlstate 23505; and when
\* it accepted none of those it evaluated, no statement has written and the
\* table holds the record it had before them, so that on a table without a
\* record exactly one Create returns 201.
C13_ConcurrentCreates ==
    CreatesOnly =>
        /\ Cardinality(Accepted) <= 1
        /\ \A r \in Accepted :
                /\ req[r].resp = Some(Response(CREATED, EmptyBody))
                /\ \E time \in Times : table = {Row(unwrap(req[r].payload), time)}
        /\ \A r \in Refused :
                /\ StatusOf(req[r]) = CONFLICT
                /\ BodyOf(req[r]) =
                        JsonBody(SerializeMessage(
                            Message(UniqueViolation.message, Some(UniqueViolation.code))))
        /\ (Refused # {} /\ Accepted = {}) => (written = NoWrite /\ table \in BurstTables \ {{}})

\* Every request of the burst was a Create, on a pool that gives each a
\* connection of its own; one returned 201, the others 409, one of them with
\* another channel_name than the record has.
C13_Witness ==
    /\ max_size = NumReqs
    /\ \A r \in Slots : r \in Accepted \cup Refused
    /\ Cardinality(Accepted) = 1
    /\ \A r \in Refused : StatusOf(req[r]) = CONFLICT
    /\ \E r \in Refused : \E row \in table :
            unwrap(req[r].payload).channel_name # row.channel_name

\* ------------------------------------------------------------------------
\* C14
\* ------------------------------------------------------------------------
\* The connections that are checked out of the pool.
CheckedOut == max_size - avail

\* C14: in every reachable state the connections checked out are as many as
\* the handlers between their pool.get() and their return, one each, and at
\* most the pool's size; when every handler has returned, with a response or
\* by a panic, all connections are back in the pool.
C14_ScopedConnections ==
    /\ CheckedOut = Cardinality({r \in Slots : Holding(r)})
    /\ CheckedOut \in 0..max_size
    /\ (\A r \in Slots : req[r].pc \in {"idle", "done"}) => avail = max_size

\* On a pool of one connection, a handler whose statement failed on the way
\* has returned without a response, and another handler holds the
\* connection after it.
C14_Witness ==
    /\ max_size = 1
    /\ \E r \in Slots : /\ req[r].pc = "done"
                         /\ Faulted(req[r].err)
                         /\ req[r].resp = NoneOpt
    /\ \E r \in Slots : Holding(r)
    /\ CheckedOut = 1

\* ------------------------------------------------------------------------
\* C15
\* ------------------------------------------------------------------------
InFlight(r) == req[r].pc \in {"pool_get", "prepare", "execute"}
Responded(r) == req[r].pc = "done" /\ req[r].resp # NoneOpt

\* C15: on a pool of any size from 1 to MaxPool, under a fair scheduler and
\* a database that completes every statement, every request of the burst
\* eventually receives a response, and whenever connections are checked out
\* the pool eventually has all of them available again.
C15_Progress ==
    /\ \A r \in Slots : InFlight(r) ~> Responded(r)
    /\ (avail < max_size) ~> (avail = max_size)

\* What holds of C15: every handler eventually returns, with a response or
\* by a panic, and the pool eventually has all its connections available
\* again; no handler waits forever for a connection.
C15_Termination ==
    /\ \A r \in Slots : InFlight(r) ~> (req[r].pc = "done")
    /\ (avail < max_size) ~> (avail = max_size)

====
